---- MODULE Spec2Model ----
(***************************************************************************)
(* A model of app.py: the PDF content parser (parse_document), the legal   *)
(* metadata extractor (extract_legal_metadata) and the Flask upload        *)
(* handler (upload).  Text is a sequence of one-character strings, so the  *)
(* regular expressions, str.strip, strptime and strftime are modelled on   *)
(* characters and offsets, as Python computes them.                        *)
(***************************************************************************)
EXTENDS Integers, Sequences, FiniteSets, TLC

(***************************************************************************)
(* Bounds of the model.                                                    *)
(***************************************************************************)
MaxWords == 3
MaxPages == 2
MaxEnts == 2
MaxSpanWords == 2

(***************************************************************************)
(* Characters and the regular-expression character classes.                *)
(***************************************************************************)
Digit == {"0", "1", "2", "3", "4", "5", "6", "7", "8", "9"}

Upper == {"A", "B", "C", "D", "E", "F", "G", "H", "I", "J", "K", "L", "M",
          "N", "O", "P", "Q", "R", "S", "T", "U", "V", "W", "X", "Y", "Z"}

Lower == {"a", "b", "c", "d", "e", "f", "g", "h", "i", "j", "k", "l", "m",
          "n", "o", "p", "q", "r", "s", "t", "u", "v", "w", "x", "y", "z"}

\* [A-Za-z]
Alpha == Upper \cup Lower

\* \w
WordChar == Alpha \cup Digit \cup {"_"}

\* \s
Space == {" ", "\n", "\t"}

\* [\w\-\/]
TokenChar == WordChar \cup {"-", "/"}

\* the lower-case letter of each upper-case one
LowerOf ==
  [c \in Upper |->
     CASE c = "A" -> "a" [] c = "B" -> "b" [] c = "C" -> "c" [] c = "D" -> "d"
       [] c = "E" -> "e" [] c = "F" -> "f" [] c = "G" -> "g" [] c = "H" -> "h"
       [] c = "I" -> "i" [] c = "J" -> "j" [] c = "K" -> "k" [] c = "L" -> "l"
       [] c = "M" -> "m" [] c = "N" -> "n" [] c = "O" -> "o" [] c = "P" -> "p"
       [] c = "Q" -> "q" [] c = "R" -> "r" [] c = "S" -> "s" [] c = "T" -> "t"
       [] c = "U" -> "u" [] c = "V" -> "v" [] c = "W" -> "w" [] c = "X" -> "x"
       [] c = "Y" -> "y" [] c = "Z" -> "z"]

\* str.lower on one character
LowerChar(c) == IF c \in Upper THEN LowerOf[c] ELSE c

\* str.lower
LowerStr(s) == [i \in 1..Len(s) |-> LowerChar(s[i])]

\* int() of one decimal digit
DigitVal(c) ==
  CASE c = "0" -> 0 [] c = "1" -> 1 [] c = "2" -> 2 [] c = "3" -> 3
    [] c = "4" -> 4 [] c = "5" -> 5 [] c = "6" -> 6 [] c = "7" -> 7
    [] c = "8" -> 8 [] c = "9" -> 9

\* the decimal digit of a number 0..9
DigitChar(n) ==
  CASE n = 0 -> "0" [] n = 1 -> "1" [] n = 2 -> "2" [] n = 3 -> "3"
    [] n = 4 -> "4" [] n = 5 -> "5" [] n = 6 -> "6" [] n = 7 -> "7"
    [] n = 8 -> "8" [] n = 9 -> "9"

\* the code point order of the characters an ISO date is written with
Ord(c) == IF c = "-" THEN 45 ELSE 48 + DigitVal(c)

RECURSIVE ToInt(_)
\* int() of a string of decimal digits
ToInt(s) ==
  IF s = <<>> THEN 0
  ELSE 10 * ToInt(SubSeq(s, 1, Len(s) - 1)) + DigitVal(s[Len(s)])

\* Python's s[a:b] for 0 <= a, the offsets counted from 0
Slice(s, a, b) == SubSeq(s, a + 1, IF b > Len(s) THEN Len(s) ELSE b)

\* s[p:].startswith(w)
StartsWith(s, p, w) == p + Len(w) <= Len(s) /\ \A k \in 1..Len(w) : s[p + k] = w[k]

\* the same, ignoring case (re.IGNORECASE)
StartsWithCI(s, p, w) ==
  p + Len(w) <= Len(s) /\ \A k \in 1..Len(w) : LowerChar(s[p + k]) = LowerChar(w[k])

\* frag in s
Contains(s, frag) == \E p \in 0..(Len(s) - Len(frag)) : StartsWith(s, p, frag)

RECURSIVE RunLen(_, _, _)
\* the length of the longest run of characters of class cls from offset p
RunLen(s, p, cls) ==
  IF p < Len(s) /\ s[p + 1] \in cls THEN 1 + RunLen(s, p + 1, cls) ELSE 0

RECURSIVE RunLenNot(_, _, _)
\* the length of the longest run of characters outside class cls from offset p
RunLenNot(s, p, cls) ==
  IF p < Len(s) /\ s[p + 1] \notin cls THEN 1 + RunLenNot(s, p + 1, cls) ELSE 0

\* \b at offset p
WordBoundary(s, p) ==
  (p > 0 /\ s[p] \in WordChar) # (p < Len(s) /\ s[p + 1] \in WordChar)

RECURSIVE LStrip(_)
LStrip(s) == IF s # <<>> /\ s[1] \in Space THEN LStrip(Tail(s)) ELSE s

RECURSIVE RStrip(_)
RStrip(s) ==
  IF s # <<>> /\ s[Len(s)] \in Space THEN RStrip(SubSeq(s, 1, Len(s) - 1)) ELSE s

\* str.strip
Strip(s) == RStrip(LStrip(s))

RECURSIVE Join(_, _)
\* sep.join(parts)
Join(sep, parts) ==
  IF parts = <<>> THEN <<>>
  ELSE IF Len(parts) = 1 THEN parts[1]
  ELSE parts[1] \o sep \o Join(sep, Tail(parts))

RECURSIVE StrLess(_, _)
\* a < b on strings: by code point, a proper prefix first
StrLess(a, b) ==
  IF b = <<>> THEN FALSE
  ELSE IF a = <<>> THEN TRUE
  ELSE IF a[1] # b[1] THEN Ord(a[1]) < Ord(b[1])
  ELSE StrLess(Tail(a), Tail(b))

(***************************************************************************)
(* The date patterns of extract_legal_metadata and re.finditer.            *)
(* A match is the record of its offsets, [start, end), counted from 0.     *)
(***************************************************************************)
\* every character of s[p:p+n] is a digit
Digits(s, p, n) == p + n <= Len(s) /\ \A k \in 1..n : s[p + k] \in Digit

\* the character at offset p is c
CharAt(s, p, c) == p < Len(s) /\ s[p + 1] = c

\* the first element of a sequence of candidate ends that is a match, or -1
FirstEnd(ends) ==
  IF \E k \in 1..Len(ends) : ends[k] >= 0
  THEN ends[CHOOSE k \in 1..Len(ends) :
              ends[k] >= 0 /\ \A j \in 1..(k - 1) : ends[j] < 0]
  ELSE -1

\* r"\b\d{4}-\d{2}-\d{2}\b" tried at offset p: the end of the match, or -1
MatchIsoAt(s, p) ==
  IF /\ WordBoundary(s, p)
     /\ Digits(s, p, 4) /\ CharAt(s, p + 4, "-")
     /\ Digits(s, p + 5, 2) /\ CharAt(s, p + 7, "-")
     /\ Digits(s, p + 8, 2)
     /\ WordBoundary(s, p + 10)
  THEN p + 10 ELSE -1

\* one way of r"\b\d{1,2}/\d{1,2}/\d{2,4}\b": dl, ml and yl digits
SlashEnd(s, p, dl, ml, yl) ==
  IF /\ WordBoundary(s, p)
     /\ Digits(s, p, dl) /\ CharAt(s, p + dl, "/")
     /\ Digits(s, p + dl + 1, ml) /\ CharAt(s, p + dl + 1 + ml, "/")
     /\ Digits(s, p + dl + ml + 2, yl)
     /\ WordBoundary(s, p + dl + ml + 2 + yl)
  THEN p + dl + ml + 2 + yl ELSE -1

\* r"\b\d{1,2}/\d{1,2}/\d{2,4}\b" tried at offset p: greedy, longest counts first
MatchSlashAt(s, p) ==
  IF ~(WordBoundary(s, p) /\ Digits(s, p, 1)) THEN -1
  ELSE
  FirstEnd(<<SlashEnd(s, p, 2, 2, 4), SlashEnd(s, p, 2, 2, 3), SlashEnd(s, p, 2, 2, 2),
             SlashEnd(s, p, 2, 1, 4), SlashEnd(s, p, 2, 1, 3), SlashEnd(s, p, 2, 1, 2),
             SlashEnd(s, p, 1, 2, 4), SlashEnd(s, p, 1, 2, 3), SlashEnd(s, p, 1, 2, 2),
             SlashEnd(s, p, 1, 1, 4), SlashEnd(s, p, 1, 1, 3), SlashEnd(s, p, 1, 1, 2)>>)

\* one way of r"\b\d{1,2} [A-Za-z]+ \d{4}\b": dl digits, then the longest run
\* of letters that a space, four digits and a word boundary follow
LongEnd(s, p, dl) ==
  LET q == p + dl + 1
      run == RunLen(s, q, Alpha)
      ok(al) == /\ CharAt(s, q + al, " ")
                /\ Digits(s, q + al + 1, 4)
                /\ WordBoundary(s, q + al + 5)
  IN  IF /\ WordBoundary(s, p) /\ Digits(s, p, dl) /\ CharAt(s, p + dl, " ")
         /\ \E al \in 1..run : ok(al)
      THEN q + (CHOOSE al \in 1..run : ok(al) /\ \A b \in (al + 1)..run : ~ok(b)) + 5
      ELSE -1

\* r"\b\d{1,2} [A-Za-z]+ \d{4}\b" tried at offset p
MatchLongAt(s, p) ==
  IF ~(WordBoundary(s, p) /\ Digits(s, p, 1)) THEN -1
  ELSE FirstEnd(<<LongEnd(s, p, 2), LongEnd(s, p, 1)>>)

\* the three patterns, in the order of the list
date_patterns == <<"iso", "slash", "long">>

DateMatchAt(pattern, s, p) ==
  CASE pattern = "iso" -> MatchIsoAt(s, p)
    [] pattern = "slash" -> MatchSlashAt(s, p)
    [] pattern = "long" -> MatchLongAt(s, p)

RECURSIVE DateFindIter(_, _, _)
\* re.finditer(pattern, s) from offset p: leftmost matches, none overlapping
DateFindIter(pattern, s, p) ==
  IF p > Len(s) THEN <<>>
  ELSE LET e == DateMatchAt(pattern, s, p)
       IN  IF e >= 0
           THEN <<[start |-> p, end |-> e]>> \o DateFindIter(pattern, s, e)
           ELSE DateFindIter(pattern, s, p + 1)

(***************************************************************************)
(* datetime.strptime and strftime.  A datetime is <<year, month, day>>;    *)
(* None, the outcome of a ValueError, is the empty tuple.                  *)
(***************************************************************************)
None == <<>>

MonthNames ==
  <<<<"J", "a", "n", "u", "a", "r", "y">>,
    <<"F", "e", "b", "r", "u", "a", "r", "y">>,
    <<"M", "a", "r", "c", "h">>,
    <<"A", "p", "r", "i", "l">>,
    <<"M", "a", "y">>,
    <<"J", "u", "n", "e">>,
    <<"J", "u", "l", "y">>,
    <<"A", "u", "g", "u", "s", "t">>,
    <<"S", "e", "p", "t", "e", "m", "b", "e", "r">>,
    <<"O", "c", "t", "o", "b", "e", "r">>,
    <<"N", "o", "v", "e", "m", "b", "e", "r">>,
    <<"D", "e", "c", "e", "m", "b", "e", "r">>>>

IsLeap(y) == (y % 4 = 0 /\ y % 100 # 0) \/ y % 400 = 0

DaysInMonth(y, m) ==
  IF m = 2 THEN (IF IsLeap(y) THEN 29 ELSE 28)
  ELSE IF m \in {4, 6, 9, 11} THEN 30 ELSE 31

\* datetime(y, m, d), None when the constructor raises
MakeDate(y, m, d) ==
  IF y >= 1 /\ m \in 1..12 /\ d >= 1 /\ d <= DaysInMonth(y, m)
  THEN <<y, m, d>> ELSE None

\* the first of a sequence of parses that is not None
FirstParse(tries) ==
  IF \E k \in 1..Len(tries) : tries[k] # None
  THEN tries[CHOOSE k \in 1..Len(tries) :
               tries[k] # None /\ \A j \in 1..(k - 1) : tries[j] = None]
  ELSE None

RECURSIVE Strp(_, _, _, _, _, _, _)
\* strptime: the directives fmt[fi..] matched against s from offset p, with the
\* fields read so far.  The whole of s has to be consumed.
\*   %Y  \d\d\d\d
\*   %m  1[0-2] | 0[1-9] | [1-9]
\*   %d  3[01] | [12]\d | 0[1-9] | [1-9] | " "[1-9]
\*   %B  a full month name, in any case
\*   " " \s+
Strp(fmt, fi, s, p, y, m, d) ==
  IF fi > Len(fmt)
  THEN IF p = Len(s) THEN MakeDate(y, m, d) ELSE None
  ELSE LET f == fmt[fi]
       IN CASE f = "%Y" ->
                 IF Digits(s, p, 4)
                 THEN Strp(fmt, fi + 1, s, p + 4, ToInt(Slice(s, p, p + 4)), m, d)
                 ELSE None
            [] f = "%m" ->
                 FirstParse(<<
                   IF Digits(s, p, 2) /\ ToInt(Slice(s, p, p + 2)) \in 1..12
                   THEN Strp(fmt, fi + 1, s, p + 2, y, ToInt(Slice(s, p, p + 2)), d)
                   ELSE None,
                   IF Digits(s, p, 1) /\ s[p + 1] # "0"
                   THEN Strp(fmt, fi + 1, s, p + 1, y, DigitVal(s[p + 1]), d)
                   ELSE None>>)
            [] f = "%d" ->
                 FirstParse(<<
                   IF Digits(s, p, 2) /\ ToInt(Slice(s, p, p + 2)) \in 1..31
                   THEN Strp(fmt, fi + 1, s, p + 2, y, m, ToInt(Slice(s, p, p + 2)))
                   ELSE None,
                   IF Digits(s, p, 1) /\ s[p + 1] # "0"
                   THEN Strp(fmt, fi + 1, s, p + 1, y, m, DigitVal(s[p + 1]))
                   ELSE None,
                   IF CharAt(s, p, " ") /\ Digits(s, p + 1, 1) /\ s[p + 2] # "0"
                   THEN Strp(fmt, fi + 1, s, p + 2, y, m, DigitVal(s[p + 2]))
                   ELSE None>>)
            [] f = "%B" ->
                 FirstParse([k \in 1..12 |->
                   IF StartsWithCI(s, p, MonthNames[k])
                   THEN Strp(fmt, fi + 1, s, p + Len(MonthNames[k]), y, k, d)
                   ELSE None])
            [] f = " " ->
                 LET run == RunLen(s, p, Space)
                 IN  FirstParse([k \in 1..run |->
                       Strp(fmt, fi + 1, s, p + (run + 1 - k), y, m, d)])
            [] OTHER ->
                 IF CharAt(s, p, f) THEN Strp(fmt, fi + 1, s, p + 1, y, m, d)
                 ELSE None

\* datetime.strptime(date_str, fmt); the fields start at 1900-01-01
strptime(date_str, fmt) == Strp(fmt, 1, date_str, 0, 1900, 1, 1)

\* the number n written with w digits, zero padded
Pad(n, w) == [k \in 1..w |-> DigitChar((n \div (10 ^ (w - k))) % 10)]

\* dt.strftime("%Y-%m-%d")
strftime(dt) == Pad(dt[1], 4) \o <<"-">> \o Pad(dt[2], 2) \o <<"-">> \o Pad(dt[3], 2)

\* the try ladder of lines 107-116: the first format that parses, else None
ParseDate(date_str) ==
  FirstParse(<<strptime(date_str, <<"%Y", "-", "%m", "-", "%d">>),
               strptime(date_str, <<"%d", "/", "%m", "/", "%Y">>),
               strptime(date_str, <<"%d", " ", "%B", " ", "%Y">>)>>)

(***************************************************************************)
(* The letter and clause patterns and re.findall.  A match records its     *)
(* offsets and its groups; findall returns the groups alone.               *)
(***************************************************************************)
NoMatch == [end |-> -1]

\* the capture ([\w\-\/]+) tried at offset q of a match that began at p
LetterCapture(s, p, q) ==
  LET t == RunLen(s, q, TokenChar)
  IN  IF t >= 1
      THEN [start |-> p, end |-> q + t, group1 |-> Slice(s, q, q + t)]
      ELSE NoMatch

\* r"Letter\s+(?:No\.|Number)?\s*([\w\-\/]+)" with re.IGNORECASE tried at offset
\* p: the optional group is taken when the rest then matches, else left out
LetterMatchAt(s, p) ==
  IF ~StartsWithCI(s, p, <<"L", "e", "t", "t", "e", "r">>) THEN NoMatch
  ELSE LET q == p + 6
           ws == RunLen(s, q, Space)
           r == q + ws
           opt == IF StartsWithCI(s, r, <<"N", "o", ".">>) THEN 3
                  ELSE IF StartsWithCI(s, r, <<"N", "u", "m", "b", "e", "r">>) THEN 6 ELSE 0
           with == LetterCapture(s, p, r + opt + RunLen(s, r + opt, Space))
       IN  IF ws = 0 THEN NoMatch
           ELSE IF opt > 0 /\ with.end >= 0 THEN with
           ELSE LetterCapture(s, p, r)

\* (Clause|Article|Act): the first alternative that s continues with at p
ClauseKindAt(s, p) ==
  IF StartsWith(s, p, <<"C", "l", "a", "u", "s", "e">>) THEN <<"C", "l", "a", "u", "s", "e">>
  ELSE IF StartsWith(s, p, <<"A", "r", "t", "i", "c", "l", "e">>) THEN <<"A", "r", "t", "i", "c", "l", "e">>
  ELSE IF StartsWith(s, p, <<"A", "c", "t">>) THEN <<"A", "c", "t">>
  ELSE <<>>

\* r"(Clause|Article|Act)\s+\d+(\.\d+)?" tried at offset p.  group1 is the
\* kind and group2 the optional (\.\d+), empty when it took no part; the \d+
\* between them is in no group.
ClauseMatchAt(s, p) ==
  LET kind == ClauseKindAt(s, p)
      q == p + Len(kind)
      ws == RunLen(s, q, Space)
      dn == RunLen(s, q + ws, Digit)
      e == q + ws + dn
      sn == IF CharAt(s, e, ".") THEN RunLen(s, e + 1, Digit) ELSE 0
  IN  IF kind = <<>> \/ ws = 0 \/ dn = 0 THEN NoMatch
      ELSE IF sn >= 1
      THEN [start |-> p, end |-> e + 1 + sn, group1 |-> kind,
            group2 |-> Slice(s, e, e + 1 + sn)]
      ELSE [start |-> p, end |-> e, group1 |-> kind, group2 |-> <<>>]

RefMatchAt(pattern, s, p) ==
  IF pattern = "letter" THEN LetterMatchAt(s, p) ELSE ClauseMatchAt(s, p)

RECURSIVE RefFindIter(_, _, _)
\* the matches re.findall walks: leftmost first, none overlapping
RefFindIter(pattern, s, p) ==
  IF p > Len(s) THEN <<>>
  ELSE LET m == RefMatchAt(pattern, s, p)
       IN  IF m.end >= 0 THEN <<m>> \o RefFindIter(pattern, s, m.end)
           ELSE RefFindIter(pattern, s, p + 1)

\* re.findall(r"Letter...", all_text, re.IGNORECASE): one group, so strings
FindAllLetters(s) ==
  LET ms == RefFindIter("letter", s, 0) IN [k \in 1..Len(ms) |-> ms[k].group1]

\* re.findall(pattern, all_text) of the clause pattern: two groups, so pairs
FindAllClauses(s) ==
  LET ms == RefFindIter("clause", s, 0)
  IN  [k \in 1..Len(ms) |-> <<ms[k].group1, ms[k].group2>>]

(***************************************************************************)
(* Utilities.                                                              *)
(***************************************************************************)
\* the length of the run of characters that "." matches from offset p
RunLenNotNewline(s, p) == RunLenNot(s, p, {"\n"})

\* the numbers n, n-1, .. 0: the order a greedy repetition gives back in
Greedy(n) == [k \in 1..(n + 1) |-> n + 1 - k]

\* (.+) at offset q: the end of the match, or -1
CaptionRest(s, q) ==
  IF RunLenNotNewline(s, q) >= 1 THEN q + RunLenNotNewline(s, q) ELSE -1

\* [:\.\-]?\s*(.+) at offset q
CaptionAfterNumber(s, q) ==
  LET punct == IF q < Len(s) /\ s[q + 1] \in {":", ".", "-"} THEN <<1, 0>> ELSE <<0>>
  IN  FirstEnd([c \in 1..Len(punct) |->
        LET w == Greedy(RunLen(s, q + punct[c], Space))
        IN  FirstEnd([k \in 1..Len(w) |-> CaptionRest(s, q + punct[c] + w[k])])])

\* [\s\-:]*(\d+)?[:\.\-]?\s*(.+) at offset q
CaptionAfterWord(s, q) ==
  LET a == Greedy(RunLen(s, q, Space \cup {"-", ":"}))
  IN  FirstEnd([i \in 1..Len(a) |->
        LET d == Greedy(RunLen(s, q + a[i], Digit))
        IN  FirstEnd([j \in 1..Len(d) |-> CaptionAfterNumber(s, q + a[i] + d[j])])])

\* r"(Figure|Fig)[\s\-:]*(\d+)?[:\.\-]?\s*(.+)" with re.IGNORECASE at offset p
CaptionMatchAt(s, p) ==
  IF ~StartsWithCI(s, p, <<"F", "i", "g">>) THEN -1
  ELSE
  FirstEnd(<<IF StartsWithCI(s, p, <<"F", "i", "g", "u", "r", "e">>) THEN CaptionAfterWord(s, p + 6) ELSE -1,
             IF StartsWithCI(s, p, <<"F", "i", "g">>) THEN CaptionAfterWord(s, p + 3) ELSE -1>>)

\* group(0) of re.search, the leftmost match; "" for no text or no match
extract_caption_from_page_text(text) ==
  IF text = <<>> THEN <<>>
  ELSE IF \E p \in 0..Len(text) : CaptionMatchAt(text, p) >= 0
  THEN LET p == CHOOSE p \in 0..Len(text) :
                  /\ CaptionMatchAt(text, p) >= 0
                  /\ \A q \in 0..(p - 1) : CaptionMatchAt(text, q) < 0
       IN  Slice(text, p, CaptionMatchAt(text, p))
  ELSE <<>>

\* el.get("text", "")
GetText(el) == IF "text" \in DOMAIN el THEN el.text ELSE <<>>

RECURSIVE FindPageFrom(_, _, _)
\* the loop of find_page from element i on
FindPageFrom(text_snippet, content, i) ==
  IF i > Len(content) THEN -1
  ELSE IF Contains(GetText(content[i]), text_snippet) THEN content[i].page_number
  ELSE FindPageFrom(text_snippet, content, i + 1)

\* find_page were it to compare without regard to case
find_page_ignoring_case(text_snippet, parsed_doc) ==
  LET hits == {i \in 1..Len(parsed_doc.content) :
                 Contains(LowerStr(GetText(parsed_doc.content[i])), LowerStr(text_snippet))}
  IN  IF hits = {} THEN -1
      ELSE parsed_doc.content[CHOOSE i \in hits : \A j \in hits : i <= j].page_number

\* find_page were it to answer 0 for a fragment no element holds
find_page_zero_sentinel(text_snippet, parsed_doc) ==
  IF FindPageFrom(text_snippet, parsed_doc.content, 1) = -1 THEN 0
  ELSE FindPageFrom(text_snippet, parsed_doc.content, 1)

find_page(text_snippet, parsed_doc) == FindPageFrom(text_snippet, parsed_doc.content, 1)

generic_terms ==
  {<<"C", "o", "n", "t", "r", "a", "c", "t", "o", "r">>, <<"R", "e", "q", "u", "e", "s", "t">>, <<"W", "o", "r", "k", "s">>, <<"M", "i", "l", "e", "s", "t", "o", "n", "e", "s">>, <<"n", "o", ".">>, <<"N", "a", "m", "e">>, <<"C", "o", "m", "p", "a", "n", "y">>}

\* name and name.strip() and name not in generic_terms, as a truth value
is_valid_name(name) ==
  name # <<>> /\ Strip(name) # <<>> /\ name \notin generic_terms

(***************************************************************************)
(* Extraction functions.  A page is what pdfplumber hands over: the words  *)
(* of extract_words() and the tables of extract_tables(), each table a     *)
(* sequence of rows of cells.  The bounding boxes of the words, which no   *)
(* operation reads, are left out of the elements' metadata.                *)
(***************************************************************************)
RECURSIVE ToStr(_)
\* str(n) for n >= 0
ToStr(n) == IF n < 10 THEN <<DigitChar(n)>> ELSE ToStr(n \div 10) \o <<DigitChar(n % 10)>>

RECURSIVE Concat(_)
\* "".join(parts)
Concat(parts) == IF parts = <<>> THEN <<>> ELSE parts[1] \o Concat(Tail(parts))

\* page.extract_text(): the words of the page on one line
ExtractText(page) == Join(<<" ">>, page.words)

RECURSIVE Paragraphs(_, _)
\* lines 41-49: one paragraph element for each word that is not blank
Paragraphs(words, page_number) ==
  IF words = <<>> THEN <<>>
  ELSE LET text == Strip(words[1])
       IN  (IF text # <<>>
            THEN <<[type |-> "paragraph", text |-> text, page_number |-> page_number]>>
            ELSE <<>>) \o Paragraphs(Tail(words), page_number)

\* lines 53-61: the element of one table
TableElement(table, page_number) ==
  [type |-> "table",
   text |-> Join(<<"\n">>, [r \in 1..Len(table) |-> Join(<<" ", "|", " ">>, table[r])]),
   html |-> <<"<", "t", "a", "b", "l", "e", ">">>
            \o Concat([r \in 1..Len(table) |->
                 <<"<", "t", "r", ">">>
                 \o Concat([c \in 1..Len(table[r]) |-> <<"<", "t", "d", ">">> \o table[r][c] \o <<"<", "/", "t", "d", ">">>])
                 \o <<"<", "/", "t", "r", ">">>])
            \o <<"<", "/", "t", "a", "b", "l", "e", ">">>,
   page_number |-> page_number]

\* lines 63-70: the figure marker every page gets
FigureElement(page, page_number) ==
  [type |-> "figure",
   image_filename |-> <<"p", "a", "g", "e", "_">> \o ToStr(page_number) \o <<".", "p", "n", "g">>,
   caption |-> extract_caption_from_page_text(ExtractText(page)),
   page_number |-> page_number]

extract_elements_from_page(page, page_number) ==
  Paragraphs(page.words, page_number)
  \o [t \in 1..Len(page.tables) |-> TableElement(page.tables[t], page_number)]
  \o <<FigureElement(page, page_number)>>

RECURSIVE ParseFrom(_, _)
\* the loop of parse_document from page index i (enumerate counts from 0)
ParseFrom(pdf_pages, i) ==
  IF i >= Len(pdf_pages) THEN <<>>
  ELSE extract_elements_from_page(pdf_pages[i + 1], i + 1) \o ParseFrom(pdf_pages, i + 1)

parse_document(pdf_pages) == [content |-> ParseFrom(pdf_pages, 0)]

(***************************************************************************)
(* extract_legal_metadata, pass by pass.                                   *)
(***************************************************************************)
NOT_FOUND == <<"n", "o", "t", " ", "f", "o", "u", "n", "d">>

\* line 94
AllText(parsed_doc) ==
  Join(<<" ">>, [i \in 1..Len(parsed_doc.content) |-> GetText(parsed_doc.content[i])])

RECURSIVE AddMatchesByDate(_, _, _)
\* lines 105-118 were the set to hold a date once, whatever its offsets
AddMatchesByDate(matches, all_text, found) ==
  IF matches = <<>> THEN found
  ELSE LET m == matches[1]
           dt == ParseDate(Slice(all_text, m.start, m.end))
       IN  AddMatchesByDate(Tail(matches), all_text,
             IF dt = None \/ \E k \in found : k[1] = strftime(dt) THEN found
             ELSE found \cup {<<strftime(dt), m.start, m.end>>})

RECURSIVE AddMatches(_, _, _)
\* lines 105-118 for the matches of one pattern: a match that parses adds its
\* key to found, one that does not is passed over
AddMatches(matches, all_text, found) ==
  IF matches = <<>> THEN found
  ELSE LET m == matches[1]
           dt == ParseDate(Slice(all_text, m.start, m.end))
       IN  AddMatches(Tail(matches), all_text,
             IF dt = None THEN found
             ELSE found \cup {<<strftime(dt), m.start, m.end>>})

RECURSIVE FoundDatesFrom(_, _, _)
\* lines 103-118 from the pattern of index pi on
FoundDatesFrom(pi, all_text, found) ==
  IF pi > Len(date_patterns) THEN found
  ELSE FoundDatesFrom(pi + 1, all_text,
         AddMatches(DateFindIter(date_patterns[pi], all_text, 0), all_text, found))

FoundDates(all_text) == FoundDatesFrom(1, all_text, {})

\* the order of the tuples (iso, start, end)
KeyLess(a, b) ==
  \/ StrLess(a[1], b[1])
  \/ a[1] = b[1] /\ (a[2] < b[2] \/ (a[2] = b[2] /\ a[3] < b[3]))

RECURSIVE SortedByStart(_)
\* the keys in the order of the text, were line 120 to sort by offset
SortedByStart(S) ==
  IF S = {} THEN <<>>
  ELSE LET first == CHOOSE a \in S : \A b \in S \ {a} :
                      a[2] < b[2] \/ (a[2] = b[2] /\ (a[3] < b[3] \/
                        (a[3] = b[3] /\ StrLess(a[1], b[1]))))
       IN  <<first>> \o SortedByStart(S \ {first})

RECURSIVE Sorted(_)
\* sorted(found_dates)
Sorted(S) ==
  IF S = {} THEN <<>>
  ELSE LET least == CHOOSE a \in S : \A b \in S \ {a} : KeyLess(a, b)
       IN  <<least>> \o Sorted(S \ {least})

\* lines 120-124
DateEntries(found_dates, all_text) ==
  LET keys == Sorted(found_dates)
  IN  [k \in 1..Len(keys) |->
        [date |-> keys[k][1],
         surrounding_context |->
           Slice(all_text, IF keys[k][2] - 50 > 0 THEN keys[k][2] - 50 ELSE 0,
                 keys[k][3] + 50)]]

\* lines 126-127 were the last entry taken
DocumentDateLast(dates) == IF dates # <<>> THEN dates[Len(dates)].date ELSE NOT_FOUND

\* lines 126-127
DocumentDate(dates) == IF dates # <<>> THEN dates[1].date ELSE NOT_FOUND

RECURSIVE PersonsFrom(_, _, _, _)
\* lines 130-139: the loop over doc.ents with the names seen so far
PersonsFrom(ents, parsed_doc, seen_persons, persons) ==
  IF ents = <<>> THEN persons
  ELSE LET ent == ents[1]
           name == Strip(ent.text)
       IN  IF ent.label_ = "PERSON" /\ is_valid_name(ent.text) /\ name \notin seen_persons
           THEN PersonsFrom(Tail(ents), parsed_doc, seen_persons \cup {name},
                  Append(persons, [name |-> name,
                                   page_number |-> find_page(name, parsed_doc)]))
           ELSE PersonsFrom(Tail(ents), parsed_doc, seen_persons, persons)

Persons(ents, parsed_doc) == PersonsFrom(ents, parsed_doc, {}, <<>>)

RECURSIVE LettersFrom(_, _, _)
\* lines 142-147
LettersFrom(matches, parsed_doc, letters) ==
  IF matches = <<>> THEN letters
  ELSE LET match == matches[1]
       IN  LettersFrom(Tail(matches), parsed_doc,
             IF is_valid_name(match)
             THEN Append(letters, [name |-> match,
                                   page_number |-> find_page(match, parsed_doc)])
             ELSE letters)

RECURSIVE LettersOnce(_, _, _)
\* lines 142-147 were an identifier kept once, as persons and clauses are
LettersOnce(matches, parsed_doc, letters) ==
  IF matches = <<>> THEN letters
  ELSE LET match == matches[1]
       IN  LettersOnce(Tail(matches), parsed_doc,
             IF is_valid_name(match) /\ \A i \in 1..Len(letters) : letters[i].name # match
             THEN Append(letters, [name |-> match,
                                   page_number |-> find_page(match, parsed_doc)])
             ELSE letters)

LettersDeduplicated(all_text, parsed_doc) ==
  LettersOnce(FindAllLetters(all_text), parsed_doc, <<>>)

Letters(all_text, parsed_doc) == LettersFrom(FindAllLetters(all_text), parsed_doc, <<>>)

\* line 153: f"{ref[0]} {ref[1] if ref[1] else ''}".strip()
FullRef(ref) == Strip(ref[1] \o <<" ">> \o ref[2])

RECURSIVE ClausesFrom(_, _, _, _)
\* lines 152-160
ClausesFrom(refs, parsed_doc, seen_clauses, clauses) ==
  IF refs = <<>> THEN clauses
  ELSE LET ref == refs[1]
           full_ref == FullRef(ref)
       IN  IF full_ref \notin seen_clauses
           THEN ClausesFrom(Tail(refs), parsed_doc, seen_clauses \cup {full_ref},
                  Append(clauses, [reference |-> full_ref,
                                   type |-> LowerStr(ref[1]),
                                   page_number |-> find_page(full_ref, parsed_doc)]))
           ELSE ClausesFrom(Tail(refs), parsed_doc, seen_clauses, clauses)

Clauses(all_text, parsed_doc) == ClausesFrom(FindAllClauses(all_text), parsed_doc, {}, <<>>)

\* lines 83-92: the record as it is first built
EmptyMetadata(pdf_filename) ==
  [document_name |-> pdf_filename,
   document_date |-> NOT_FOUND,
   dates |-> <<>>,
   references |-> [letters_mentioned |-> <<>>,
                   laws_clauses_articles_acts |-> <<>>,
                   persons |-> <<>>]]

\* the whole function, given what nlp(all_text).ents holds
extract_legal_metadata(parsed_doc, pdf_filename, ents) ==
  LET all_text == AllText(parsed_doc)
      dates == DateEntries(FoundDates(all_text), all_text)
  IN  [metadata |->
        [document_name |-> pdf_filename,
         document_date |-> DocumentDate(dates),
         dates |-> dates,
         references |-> [letters_mentioned |-> Letters(all_text, parsed_doc),
                         laws_clauses_articles_acts |-> Clauses(all_text, parsed_doc),
                         persons |-> Persons(ents, parsed_doc)]]]

(***************************************************************************)
(* The inputs: documents and what the entity tagger returns for them.      *)
(* A document draws its words from one vocabulary and its tables from the  *)
(* tables that go with that vocabulary.                                    *)
(***************************************************************************)
NoTables == <<>>

\* a table of one row; its cells repeat words of the page, as the cells of a
\* real table do
LetterTable == <<<<<<"L", "e", "t", "t", "e", "r", " ", "X", "Y", "Z", "-", "1", "2", "3">>, <<"L", "e", "t", "t", "e", "r", " ", "W", "o", "r", "k", "s">>>>>>

Families ==
  {[vocab |-> {<<"1", "5">>, <<"M", "a", "r", "c", "h">>, <<"2", "0", "2", "3", "-", "0", "1", "-", "0", "1">>},
    tables |-> {NoTables}],
   [vocab |-> {<<"2", "0", "2", "2", "-", "0", "1", "-", "0", "1">>, <<"1", "/", "1", "/", "2", "0", "2", "1">>, <<"3", "1", "/", "0", "2", "/", "2", "0", "2", "3">>},
    tables |-> {NoTables}],
   [vocab |-> {<<"C", "l", "a", "u", "s", "e">>, <<"4", ".", "2">>, <<"5">>},
    tables |-> {NoTables}],
   [vocab |-> {<<"L", "e", "t", "t", "e", "r">>, <<"N", "o", ".">>, <<"X", "Y", "Z", "-", "1", "2", "3">>},
    tables |-> {NoTables}],
   [vocab |-> {<<"C", "o", "n", "t", "r", "a", "c", "t", "o", "r">>, <<"S", "m", "i", "t", "h">>},
    tables |-> {NoTables}],
   [vocab |-> {<<"F", "i", "g", ".">>, <<"X", "Y", "Z", "-", "1", "2", "3">>},
    tables |-> {NoTables, <<LetterTable>>}]}

\* the sequences of at most MaxWords words of a vocabulary
WordSeqs(vocab) == UNION {[1..n -> vocab] : n \in 0..MaxWords}

\* the ways of cutting n words into np pages: the index of each page's last word
Cuts(n, np) ==
  {c \in [1..np -> 0..n] :
     /\ np > 0 => c[np] = n
     /\ \A k \in 1..(np - 1) : c[k] <= c[k + 1]}

\* the pages of a document: its words cut at c, and each page's tables
MakePages(ws, c, tabs) ==
  [k \in 1..Len(tabs) |->
     [words |-> SubSeq(ws, (IF k = 1 THEN 0 ELSE c[k - 1]) + 1, c[k]),
      tables |-> tabs[k]]]

\* the documents of at most MaxPages pages; one without pages has no words
Documents ==
  UNION {UNION {UNION {{MakePages(ws, c, tabs) :
                          c \in Cuts(Len(ws), np), tabs \in [1..np -> fam.tables]} :
                       np \in (IF ws = <<>> THEN 0 ELSE 1)..MaxPages} :
                ws \in WordSeqs(fam.vocab)} :
         fam \in Families}

\* the words the tagger of the model may make an entity of
NameWords == {<<"C", "o", "n", "t", "r", "a", "c", "t", "o", "r">>, <<"S", "m", "i", "t", "h">>}

\* the offsets at which a word of s begins
WordStarts(s) ==
  {p \in 0..(Len(s) - 1) : s[p + 1] \notin Space /\ (p = 0 \/ s[p] \in Space)}

\* the end of the word that begins at offset p
WordEnd(s, p) == p + RunLenNot(s, p, Space)

RECURSIVE SpanEnd(_, _, _)
\* the end of the k-th of the name words that follow one another from the word
\* start p, or -1 when fewer than k do
SpanEnd(s, p, k) ==
  IF p \notin WordStarts(s) \/ Slice(s, p, WordEnd(s, p)) \notin NameWords THEN -1
  ELSE IF k = 1 THEN WordEnd(s, p)
  ELSE SpanEnd(s, WordEnd(s, p) + RunLen(s, WordEnd(s, p), Space), k - 1)

\* the spans the tagger may return, as pairs of offsets: one to MaxSpanWords
\* name words, with or without the one character of white space before or
\* after them
Spans(s) ==
  UNION {UNION {LET e == SpanEnd(s, p, k)
                IN  IF e < 0 THEN {}
                    ELSE {<<p, e>>}
                         \cup (IF p > 0 THEN {<<p - 1, e>>} ELSE {})
                         \cup (IF e < Len(s) THEN {<<p, e + 1>>} ELSE {}) :
                k \in 1..MaxSpanWords} :
         p \in WordStarts(s)}

Labels == {"PERSON", "ORG"}

\* nlp(all_text).ents: at most MaxEnts labelled spans, in the order of the text,
\* none overlapping
TaggerOutputs(s) ==
  LET spans == Spans(s)
  IN  UNION {{[k \in 1..n |-> [text |-> Slice(s, sp[k][1], sp[k][2]), label_ |-> lb[k]]] :
                sp \in {q \in [1..n -> spans] :
                          \A k \in 1..(n - 1) : q[k][2] <= q[k + 1][1]},
                lb \in [1..n -> Labels]} :
             n \in 0..MaxEnts}

(***************************************************************************)
(* The state.  One run of the pipeline, parse_document and then            *)
(* extract_legal_metadata, over one document; and the upload handler,      *)
(* which serves requests side by side over the two shared folders.         *)
(***************************************************************************)
VARIABLES
  pc,            \* where the run of the pipeline is
  pdf_pages,     \* pdf.pages of the open document
  page_i,        \* the index i of the loop of parse_document
  parsed,        \* parsed, {"content": [...]}
  all_text,      \* all_text
  found_dates,   \* found_dates
  metadata,      \* metadata
  requests,      \* per request of upload: its inputs, locals and position
  uploads,       \* the files of UPLOAD_FOLDER, by name
  generated      \* the files of OUTPUT_FOLDER, by name

core_vars == <<pc, pdf_pages, page_i, parsed, all_text, found_dates, metadata>>

upload_vars == <<requests, uploads, generated>>

vars == <<pc, pdf_pages, page_i, parsed, all_text, found_dates, metadata,
          requests, uploads, generated>>

\* the name the pipeline is given for its document
DocName == <<"d", "o", "c", ".", "p", "d", "f">>

\* no request has come in and the folders are empty
NoUploads == requests = <<>> /\ uploads = <<>> /\ generated = <<>>

Init ==
  /\ pc = "parse_document"
  /\ pdf_pages \in Documents
  /\ page_i = 0
  /\ parsed = [content |-> <<>>]
  /\ all_text = <<>>
  /\ found_dates = {}
  /\ metadata = EmptyMetadata(DocName)
  /\ NoUploads

\* lines 77-79: one turn of the loop over pdf.pages
ParsePage ==
  /\ pc = "parse_document"
  /\ page_i < Len(pdf_pages)
  /\ parsed' = [content |-> parsed.content
                  \o extract_elements_from_page(pdf_pages[page_i + 1], page_i + 1)]
  /\ page_i' = page_i + 1
  /\ UNCHANGED <<pc, pdf_pages, all_text, found_dates, metadata>>
  /\ UNCHANGED upload_vars

\* line 80, and lines 83-95 of extract_legal_metadata
BeginExtract ==
  /\ pc = "parse_document"
  /\ page_i = Len(pdf_pages)
  /\ metadata' = EmptyMetadata(DocName)
  /\ all_text' = AllText(parsed)
  /\ pc' = "dates"
  /\ UNCHANGED <<pdf_pages, page_i, parsed, found_dates>>
  /\ UNCHANGED upload_vars

\* lines 97-127
ExtractDates ==
  /\ pc = "dates"
  /\ found_dates' = FoundDates(all_text)
  /\ metadata' = [metadata EXCEPT
        !.dates = DateEntries(found_dates', all_text),
        !.document_date = DocumentDate(DateEntries(found_dates', all_text))]
  /\ pc' = "persons"
  /\ UNCHANGED <<pdf_pages, page_i, parsed, all_text>>
  /\ UNCHANGED upload_vars

\* lines 129-139.  doc.ents, what the tagger made of all_text at line 95, is
\* read by this loop alone and is drawn here
ExtractPersons ==
  /\ pc = "persons"
  /\ \E ents \in TaggerOutputs(all_text) :
       metadata' = [metadata EXCEPT !.references.persons = Persons(ents, parsed)]
  /\ pc' = "letters"
  /\ UNCHANGED <<pdf_pages, page_i, parsed, all_text, found_dates>>
  /\ UNCHANGED upload_vars

\* lines 141-147
ExtractLetters ==
  /\ pc = "letters"
  /\ metadata' = [metadata EXCEPT
        !.references.letters_mentioned = Letters(all_text, parsed)]
  /\ pc' = "clauses"
  /\ UNCHANGED <<pdf_pages, page_i, parsed, all_text, found_dates>>
  /\ UNCHANGED upload_vars

\* lines 149-160
ExtractClauses ==
  /\ pc = "clauses"
  /\ metadata' = [metadata EXCEPT
        !.references.laws_clauses_articles_acts = Clauses(all_text, parsed)]
  /\ pc' = "return"
  /\ UNCHANGED <<pdf_pages, page_i, parsed, all_text, found_dates>>
  /\ UNCHANGED upload_vars

\* line 162
Return ==
  /\ pc = "return"
  /\ pc' = "done"
  /\ UNCHANGED <<pdf_pages, page_i, parsed, all_text, found_dates, metadata>>
  /\ UNCHANGED upload_vars

Next ==
  \/ ParsePage
  \/ BeginExtract
  \/ ExtractDates
  \/ ExtractPersons
  \/ ExtractLetters
  \/ ExtractClauses
  \/ Return

Spec == Init /\ [][Next]_vars

(***************************************************************************)
(* The upload handler.  Requests run side by side (the development server  *)
(* of app.run serves each request on a thread of its own); a request's     *)
(* steps are its accesses to the two folders.                              *)
(***************************************************************************)
UPLOAD_FOLDER == <<"u", "p", "l", "o", "a", "d", "s">>

OUTPUT_FOLDER == <<"g", "e", "n", "e", "r", "a", "t", "e", "d">>

\* os.path.join(folder, name)
PathJoin(folder, name) == folder \o <<"/">> \o name

RECURSIVE Split(_)
\* str.split(): the words between runs of white space
Split(s) ==
  LET t == LStrip(s)
      w == RunLenNot(t, 0, Space)
  IN  IF t = <<>> THEN <<>>
      ELSE <<SubSeq(t, 1, w)>> \o Split(SubSeq(t, w + 1, Len(t)))

RECURSIVE Keep(_, _)
\* the characters of s that are in class cls
Keep(s, cls) ==
  IF s = <<>> THEN <<>>
  ELSE (IF s[1] \in cls THEN <<s[1]>> ELSE <<>>) \o Keep(Tail(s), cls)

RECURSIVE StripChars(_, _)
\* s.strip(chars)
StripChars(s, chars) ==
  IF s # <<>> /\ s[1] \in chars THEN StripChars(Tail(s), chars)
  ELSE IF s # <<>> /\ s[Len(s)] \in chars
  THEN StripChars(SubSeq(s, 1, Len(s) - 1), chars)
  ELSE s

\* werkzeug's secure_filename on an ASCII name: path separators become white
\* space, the words are joined with "_", every character outside
\* [A-Za-z0-9_.-] is dropped, and dots and underscores are stripped off the ends
secure_filename(filename) ==
  LET spaced == [k \in 1..Len(filename) |->
                   IF filename[k] = "/" THEN " " ELSE filename[k]]
  IN  StripChars(Keep(Join(<<"_">>, Split(spaced)), WordChar \cup {".", "-"}),
                 {".", "_"})

\* Path(filename).stem: the name without its last suffix
Stem(filename) ==
  LET dots == {k \in 2..(Len(filename) - 1) : filename[k] = "."}
  IN  IF dots = {} THEN filename
      ELSE SubSeq(filename, 1, (CHOOSE k \in dots : \A j \in dots : j <= k) - 1)

\* the files that are uploaded: two documents of one page
UploadedDocuments ==
  {<<[words |-> <<<<"2", "0", "2", "2", "-", "0", "1", "-", "0", "1">>>>, tables |-> NoTables]>>,
   <<[words |-> <<<<"C", "l", "a", "u", "s", "e">>, <<"5">>>>, tables |-> NoTables]>>}

\* the names the files are uploaded under
UploadedNames == {<<"a", ".", "p", "d", "f">>, <<".", ".", "/", "a", ".", "p", "d", "f">>, <<"a", ".", "t", "x", "t">>, <<"b", ".", "p", "d", "f">>}

\* request.files.get("file"): a file and its name, a file field left empty,
\* or no file field
Uploads ==
  {[has_file |-> TRUE, filename |-> n, pages |-> d] :
     n \in UploadedNames, d \in UploadedDocuments}
  \cup {[has_file |-> TRUE, filename |-> <<>>, pages |-> <<>>],
        [has_file |-> FALSE, filename |-> <<>>, pages |-> <<>>]}

Requests == {1, 2}

\* a request before its handler runs
NewRequest(uploaded_file) ==
  [pc |-> "upload",
   uploaded_file |-> uploaded_file,
   filename |-> <<>>,
   filepath |-> <<>>,
   parsed |-> [content |-> <<>>],
   metadata |-> [metadata |-> EmptyMetadata(<<>>)],
   status |-> 0,
   parsed_file |-> <<>>,
   metadata_file |-> <<>>]

\* the pipeline is not run on its own
CoreIdle ==
  /\ pc = "idle"
  /\ pdf_pages = <<>>
  /\ page_i = 0
  /\ parsed = [content |-> <<>>]
  /\ all_text = <<>>
  /\ found_dates = {}
  /\ metadata = EmptyMetadata(DocName)

InitUpload ==
  /\ CoreIdle
  /\ requests \in [Requests -> {NewRequest(u) : u \in Uploads}]
  /\ uploads = <<>>
  /\ generated = <<>>

\* open(path, "w") and the write: the file of that name now holds data
WriteFile(dir, path, data) == (path :> data) @@ dir

\* lines 171-173
RejectUpload(r) ==
  /\ requests[r].pc = "upload"
  /\ ~requests[r].uploaded_file.has_file \/ requests[r].uploaded_file.filename = <<>>
  /\ requests' = [requests EXCEPT ![r].status = 400, ![r].pc = "done"]
  /\ UNCHANGED <<uploads, generated>>
  /\ UNCHANGED core_vars

\* lines 171-177
SaveUpload(r) ==
  LET uploaded_file == requests[r].uploaded_file
      filename == secure_filename(uploaded_file.filename)
      filepath == PathJoin(UPLOAD_FOLDER, filename)
  IN  /\ requests[r].pc = "upload"
      /\ uploaded_file.has_file /\ uploaded_file.filename # <<>>
      /\ uploads' = WriteFile(uploads, filepath, uploaded_file.pages)
      /\ requests' = [requests EXCEPT ![r].filename = filename,
                                      ![r].filepath = filepath,
                                      ![r].pc = "parse_document"]
      /\ UNCHANGED generated
      /\ UNCHANGED core_vars

\* line 179: pdfplumber opens whatever the file of that path now holds
ParseUpload(r) ==
  /\ requests[r].pc = "parse_document"
  /\ requests' = [requests EXCEPT
        ![r].parsed = parse_document(uploads[requests[r].filepath]),
        ![r].pc = "extract_legal_metadata"]
  /\ UNCHANGED <<uploads, generated>>
  /\ UNCHANGED core_vars

\* line 180
ExtractUpload(r) ==
  /\ requests[r].pc = "extract_legal_metadata"
  /\ \E ents \in TaggerOutputs(AllText(requests[r].parsed)) :
       requests' = [requests EXCEPT
          ![r].metadata =
             extract_legal_metadata(requests[r].parsed, requests[r].filename, ents),
          ![r].pc = "write_parsed"]
  /\ UNCHANGED <<uploads, generated>>
  /\ UNCHANGED core_vars

\* lines 182-187
WriteParsed(r) ==
  LET base == Stem(requests[r].filename)
      parsed_out == PathJoin(OUTPUT_FOLDER, base \o <<"_", "p", "a", "r", "s", "e", "d", ".", "j", "s", "o", "n">>)
  IN  /\ requests[r].pc = "write_parsed"
      /\ generated' = WriteFile(generated, parsed_out, requests[r].parsed)
      /\ requests' = [requests EXCEPT ![r].parsed_file = parsed_out,
                                      ![r].pc = "write_metadata"]
      /\ UNCHANGED uploads
      /\ UNCHANGED core_vars

\* lines 184, 188-189
WriteMetadata(r) ==
  LET base == Stem(requests[r].filename)
      meta_out == PathJoin(OUTPUT_FOLDER, base \o <<"_", "m", "e", "t", "a", "d", "a", "t", "a", ".", "j", "s", "o", "n">>)
  IN  /\ requests[r].pc = "write_metadata"
      /\ generated' = WriteFile(generated, meta_out, requests[r].metadata)
      /\ requests' = [requests EXCEPT ![r].metadata_file = meta_out,
                                      ![r].pc = "respond"]
      /\ UNCHANGED uploads
      /\ UNCHANGED core_vars

\* lines 191-195
Respond(r) ==
  /\ requests[r].pc = "respond"
  /\ requests' = [requests EXCEPT ![r].status = 200, ![r].pc = "done"]
  /\ UNCHANGED <<uploads, generated>>
  /\ UNCHANGED core_vars

NextUpload ==
  \E r \in Requests :
    \/ RejectUpload(r)
    \/ SaveUpload(r)
    \/ ParseUpload(r)
    \/ ExtractUpload(r)
    \/ WriteParsed(r)
    \/ WriteMetadata(r)
    \/ Respond(r)

SpecUpload == InitUpload /\ [][NextUpload]_vars

(***************************************************************************)
(* The properties.                                                         *)
(***************************************************************************)
\* the pass over the dates has run
DatesDone == pc \in {"persons", "letters", "clauses", "return", "done"}

\* the pass over the letters has run
LettersDone == pc \in {"clauses", "return", "done"}

\* frag is s[a:a+len(frag)] for some offset a
Occurs(s, frag) ==
  \E a \in 0..(Len(s) - Len(frag)) : \A k \in 1..Len(frag) : s[a + k] = frag[k]

\* the page numbers of a list of references
PageNumbers(refs) == {refs[i].page_number : i \in 1..Len(refs)}

\* the calendar date an ISO string stands for, as the number yyyymmdd
IsoNumber(iso) ==
  ToInt(SubSeq(iso, 1, 4)) * 10000 + ToInt(SubSeq(iso, 6, 7)) * 100
    + ToInt(SubSeq(iso, 9, 10))

\* key a comes before key b: by date, then start offset, then end offset
KeyBefore(a, b) ==
  \/ IsoNumber(a[1]) < IsoNumber(b[1])
  \/ /\ IsoNumber(a[1]) = IsoNumber(b[1])
     /\ (a[2] < b[2] \/ (a[2] = b[2] /\ a[3] < b[3]))

\* the matches of the three date patterns in all_text
DateMatches ==
  UNION {LET matches == DateFindIter(date_patterns[pi], all_text, 0)
         IN  {matches[k] : k \in 1..Len(matches)} :
         pi \in 1..Len(date_patterns)}

\* the keys (ISO date, start, end) of the matches that one of the three
\* formats parses
ParsedKeys ==
  UNION {LET dt == ParseDate(Slice(all_text, m.start, m.end))
         IN  IF dt = None THEN {} ELSE {<<strftime(dt), m.start, m.end>>} :
         m \in DateMatches}

\* the matches of the clause pattern in all_text
ClauseMatches == RefFindIter("clause", all_text, 0)

\* "<Kind> <number[.sub]>" of a match of the clause pattern: its kind, one
\* space, and what follows the white space after the kind
Rendered(m) ==
  m.group1 \o <<" ">> \o LStrip(Slice(all_text, m.start + Len(m.group1), m.end))

\* C1: every match of a Clause/Article/Act citation has an entry whose
\* reference is "<Kind> <number[.sub]>", number included, and whose type is the
\* kind in lower case; citations that differ in white space alone make one
\* entry, so there are as many entries as distinct rendered citations.
C1_ClauseReferenceHoldsNumber ==
  pc = "done" =>
    LET refs == metadata.references.laws_clauses_articles_acts
    IN  /\ \A k \in 1..Len(ClauseMatches) :
             \E i \in 1..Len(refs) :
               /\ refs[i].reference = Rendered(ClauseMatches[k])
               /\ refs[i].type = LowerStr(ClauseMatches[k].group1)
        /\ Len(refs) =
             Cardinality({Rendered(ClauseMatches[k]) : k \in 1..Len(ClauseMatches)})

\* the offset in all_text at which element i of the content begins
ElementStart(i) ==
  LET texts == [j \in 1..(i - 1) |-> GetText(parsed.content[j])]
  IN  Len(Concat(texts)) + (i - 1)

\* the page of the element that the offset p of all_text lies in
PageAt(p) ==
  LET i == CHOOSE i \in 1..Len(parsed.content) :
             /\ ElementStart(i) <= p
             /\ \A j \in (i + 1)..Len(parsed.content) : ElementStart(j) > p
  IN  parsed.content[i].page_number

\* the page on which the text t first occurs in the document
FirstPage(t) ==
  PageAt(CHOOSE p \in 0..Len(all_text) :
           /\ StartsWith(all_text, p, t)
           /\ \A q \in 0..(p - 1) : ~StartsWith(all_text, q, t))

\* every reference of one list whose text occurs in the document carries the
\* page of its first occurrence
OnFirstPage(texts, pages) ==
  \A i \in 1..Len(texts) :
    Occurs(all_text, texts[i]) => pages[i] = FirstPage(texts[i])

\* C2: every person, letter and clause reference whose text occurs in the
\* whole-document text carries the number of the page on which that text
\* first occurs.
C2_ReferenceOnFirstPage ==
  pc = "done" =>
    LET r == metadata.references
    IN  /\ OnFirstPage([i \in 1..Len(r.persons) |-> r.persons[i].name],
                       [i \in 1..Len(r.persons) |-> r.persons[i].page_number])
        /\ OnFirstPage([i \in 1..Len(r.letters_mentioned) |-> r.letters_mentioned[i].name],
                       [i \in 1..Len(r.letters_mentioned) |->
                          r.letters_mentioned[i].page_number])
        /\ OnFirstPage([i \in 1..Len(r.laws_clauses_articles_acts) |->
                          r.laws_clauses_articles_acts[i].reference],
                       [i \in 1..Len(r.laws_clauses_articles_acts) |->
                          r.laws_clauses_articles_acts[i].page_number])
        /\ \A k \in found_dates :
             \E i \in 1..Len(metadata.dates) :
               /\ metadata.dates[i].date = k[1]
               /\ "page_number" \in DOMAIN metadata.dates[i]
               /\ metadata.dates[i].page_number = FirstPage(Slice(all_text, k[2], k[3]))

\* C3: no entry of persons has a name that is empty once trimmed or that is a
\* term of the stop list, whatever spans the tagger returned.
C3_NoGenericPerson ==
  \A i \in 1..Len(metadata.references.persons) :
    LET name == metadata.references.persons[i].name
    IN  Strip(name) # <<>> /\ Strip(name) \notin generic_terms

\* the fragments find_page is asked for
Fragments ==
  {<<"X", "Y", "Z", "-", "1", "2", "3">>, <<"X", "Y", "Z">>, <<"x", "y", "z", "-", "1", "2", "3">>, <<"L", "e", "t", "t", "e", "r", " ", "X", "Y", "Z", "-", "1", "2", "3">>, <<"L", "e", "t", "t", "e", "r">>, <<"l", "e", "t", "t", "e", "r">>,
   <<"C", "l", "a", "u", "s", "e">>, <<"5">>, <<".", "2">>, <<"C", "l", "a", "u", "s", "e", " ", "4", ".", "2">>, <<"S", "m", "i", "t", "h">>, <<"C", "o", "n", "t", "r", "a", "c", "t", "o", "r", " ", "S", "m", "i", "t", "h">>,
   <<"2", "0", "2", "3">>, <<" ", "|", " ">>, <<"F", "i", "g", ".">>}

\* the elements of the content that have a text field holding frag
Holders(frag) ==
  {i \in 1..Len(parsed.content) :
     "text" \in DOMAIN parsed.content[i] /\ Occurs(parsed.content[i].text, frag)}

\* C4: find_page returns the page number of the first element, in assembled
\* order, whose text field holds the fragment as an exact, case-sensitive
\* substring, and returns -1 exactly when no element's text holds it.
C4_FindPageFirstHolder ==
  \A frag \in Fragments :
    LET holders == Holders(frag)
        page == find_page(frag, parsed)
    IN  IF holders = {}
        THEN page = -1
        ELSE /\ page # -1
             /\ page = parsed.content[CHOOSE i \in holders :
                                        \A j \in holders : i <= j].page_number

\* a fragment is found on page 2 although elements of page 1 come first, a
\* fragment is found in no element, and one differs from a held one in case alone
C4_Witness ==
  /\ \E frag \in Fragments : find_page(frag, parsed) = 2
  /\ \E frag \in Fragments :
       /\ Holders(frag) = {}
       /\ \E i \in 1..Len(parsed.content) :
            Contains(LowerStr(GetText(parsed.content[i])), LowerStr(frag))
  /\ parsed.content[1].type = "paragraph"

\* C5: the page number of every persons, letters_mentioned and
\* laws_clauses_articles_acts entry is -1 or the page number of an element of
\* the content, between 1 and the number of pages.
C5_PageNumberValid ==
  \A n \in PageNumbers(metadata.references.persons)
           \cup PageNumbers(metadata.references.letters_mentioned)
           \cup PageNumbers(metadata.references.laws_clauses_articles_acts) :
    \/ n = -1
    \/ /\ n \in 1..Len(pdf_pages)
       /\ \E k \in 1..Len(parsed.content) : parsed.content[k].page_number = n

\* the record holds a reference that was not located and one located on page 2
C5_Witness ==
  /\ pc = "done"
  /\ -1 \in PageNumbers(metadata.references.persons)
  /\ 2 \in PageNumbers(metadata.references.persons)

\* the place of a key among the keys: one more than the keys before it
Rank(k) == 1 + Cardinality({j \in found_dates : KeyBefore(j, k)})

\* C6: dates is sorted ascending by (ISO date, start offset, end offset): the
\* entry at each key's rank is that key's, so for i < j the key of entry i is
\* not after the key of entry j, whatever the order of the matches in the text
\* and whichever pattern found them.
C6_DatesSorted ==
  DatesDone =>
    /\ Len(metadata.dates) = Cardinality(found_dates)
    /\ \A k \in found_dates :
         /\ metadata.dates[Rank(k)].date = k[1]
         /\ metadata.dates[Rank(k)].surrounding_context =
              SubSeq(all_text, (IF k[2] > 50 THEN k[2] - 50 ELSE 0) + 1,
                     IF k[3] + 50 > Len(all_text) THEN Len(all_text) ELSE k[3] + 50)
    /\ \A i \in 1..Len(metadata.dates) : \A j \in i..Len(metadata.dates) :
         IsoNumber(metadata.dates[i].date) <= IsoNumber(metadata.dates[j].date)

\* two matches stand in the text in one order and in dates in the other
C6_Witness ==
  /\ pc = "done"
  /\ \E a \in found_dates : \E b \in found_dates :
       a[2] < b[2] /\ IsoNumber(b[1]) < IsoNumber(a[1])

\* C7: document_date is the date of the first entry of dates, the least date
\* among the matches that parse, when a match parses, and is "not found"
\* exactly when dates is empty; for a document of no pages it is "not found"
\* and the four lists are empty.
C7_DocumentDate ==
  DatesDone =>
    LET keys == ParsedKeys
    IN  /\ (metadata.dates = <<>>) <=> (metadata.document_date = NOT_FOUND)
        /\ (metadata.dates = <<>>) <=> (keys = {})
        /\ metadata.dates # <<>> =>
             /\ metadata.document_date = metadata.dates[1].date
             /\ \E k \in keys : metadata.document_date = k[1]
             /\ \A k \in keys :
                  IsoNumber(metadata.document_date) <= IsoNumber(k[1])
        /\ (pc = "done" /\ pdf_pages = <<>>) =>
             /\ metadata.document_date = NOT_FOUND
             /\ metadata.dates = <<>>
             /\ metadata.references.letters_mentioned = <<>>
             /\ metadata.references.laws_clauses_articles_acts = <<>>
             /\ metadata.references.persons = <<>>

\* matches of two different dates parsed, the later one first in the text
C7_Witness ==
  /\ pc = "done"
  /\ \E a \in ParsedKeys : \E b \in ParsedKeys :
       a[2] < b[2] /\ IsoNumber(b[1]) < IsoNumber(a[1])
  /\ metadata.document_date # NOT_FOUND

\* the matches of the letter pattern in all_text
LetterMatches == RefFindIter("letter", all_text, 0)

\* the matches whose captured identifier is no term of the stop list
KeptLetters ==
  LET matches == LetterMatches
  IN  {k \in 1..Len(matches) : matches[k].group1 \notin generic_terms}

\* C8: letters_mentioned holds one entry for each match of the letter pattern
\* whose captured identifier is no stop-list term, in the order of the matches
\* and with repeated identifiers repeated; an entry's name is the identifier.
C8_LettersInMatchOrder ==
  LettersDone =>
    LET letters == metadata.references.letters_mentioned
        matches == LetterMatches
        kept == KeptLetters
    IN  /\ Len(letters) = Cardinality(kept)
        /\ \A k \in kept :
             letters[Cardinality({j \in kept : j <= k})].name =
               Slice(all_text, matches[k].end - Len(matches[k].group1), matches[k].end)

\* an identifier is cited twice and kept twice, and a stop-list term is dropped
C8_Witness ==
  /\ pc = "done"
  /\ \E i \in 1..Len(metadata.references.letters_mentioned) :
       \E j \in (i + 1)..Len(metadata.references.letters_mentioned) :
         metadata.references.letters_mentioned[i].name =
           metadata.references.letters_mentioned[j].name
  /\ \E k \in 1..Len(LetterMatches) : LetterMatches[k].group1 \in generic_terms

\* C9: dates has exactly one entry for each distinct key (ISO date, start,
\* end) among the matches that parse: a date matched at two offsets has two
\* entries, and a match that none of the three formats parses has none.
C9_OneDatePerKey ==
  DatesDone =>
    LET keys == ParsedKeys
    IN  /\ found_dates = keys
        /\ Len(metadata.dates) = Cardinality(keys)
        /\ \A i \in 1..Len(metadata.dates) :
             Cardinality({j \in 1..Len(metadata.dates) :
                            metadata.dates[j].date = metadata.dates[i].date})
               = Cardinality({k \in keys : k[1] = metadata.dates[i].date})
        /\ \A k \in keys : \E i \in 1..Len(metadata.dates) : metadata.dates[i].date = k[1]

\* one date is matched at two offsets and entered twice, and a match that does
\* not parse is passed over
C9_Witness ==
  /\ pc = "done"
  /\ \E a \in ParsedKeys : \E b \in ParsedKeys : a[1] = b[1] /\ a[2] # b[2]
  /\ Cardinality(DateMatches) > Cardinality(ParsedKeys)
  /\ Len(metadata.dates) = 2

\* the steps of a request after its document is parsed
AfterParse == {"extract_legal_metadata", "write_parsed", "write_metadata", "respond", "done"}

\* C10: under any interleaving of two requests, each request parses the file
\* uploaded in that same request, and the artifacts it reports hold its own
\* parsed document and metadata.
C10_RequestsIsolated ==
  \A r \in Requests :
    LET q == requests[r]
    IN  /\ (q.pc \in AfterParse /\ q.status # 400) =>
             q.parsed = parse_document(q.uploaded_file.pages)
        /\ q.status = 200 =>
             /\ generated[q.parsed_file] = q.parsed
             /\ generated[q.metadata_file] = q.metadata

====
